---- MODULE Spec2Model ----
(***************************************************************************)
(* Hero-Wars: the timed status effects of herowars/commandlib.py and the   *)
(* Entity / Hero levelling of herowars/entities.py.                        *)
(*                                                                         *)
(* The effect half models the module-level mapping _effects, the queue of  *)
(* Source.Python's tick_delays and the player's engine state.  A handle    *)
(* returned by tick_delays.delay(seconds, callback) is a callable: calling *)
(* it runs the callback on handle.args at once (this is how the tick       *)
(* listener itself fires a due handle) and leaves the handle in the queue.  *)
(***************************************************************************)
EXTENDS Integers, Sequences, FiniteSets, TLC

\* ------------------------------------------------------------------ bounds
NumPlayers == 2
MaxDelays == 2
MaxDuration == 2
HeroMaxLevel == 3
MaxItems == 2
MaxShifts == 3
MaxCandidates == 3

\* --------------------------------------------------------------- constants
Kinds == {"burn", "freeze", "noclip", "jetpack"}
Players == 1..NumPlayers
Durations == 0..MaxDuration
SkillMaxLevel == 6

VARIABLES
    _effects,   \* kind -> (player.index -> set of handles), a defaultdict(set) per kind
    delays,     \* tick_delays: the scheduled handles in scheduling order, each with
                \* the ticks left until its execution time
    player,     \* player.index -> (kind -> engine state: on fire / freeze / noclip / jetpack)
    nextId,     \* identity of the next handle object
    call,       \* what the handler that ran last did (observation only)
    gone,       \* the players that have left the server
    _level,     \* a Hero's _level
    _exp,       \* the Hero's _exp
    skill_level,\* the _level of a Skill, an Entity with the plain Entity setter
    hcall,      \* what the setter that ran last did (observation only)
    skills,     \* the levels of the hero's skills, in the order of skill_set
    items,      \* the hero's items in insertion order, each the set of methods its class defines
    scall,      \* what the skill operation that ran last did (observation only)
    prop,       \* the value of one numeric property of one player
    shifts,     \* tick_delays: the handles scheduled by shiftprop, in scheduling order
    nshift,     \* the number of shiftprop calls made by skills so far
    pcall,      \* what the shiftprop run that ran last did (observation only)
    permanent,  \* the sum of the shifts applied with duration 0 so far (history only)
    ncall       \* the last get_nearby_players call: its inputs and the list returned

evars == <<_effects, delays, player, nextId, call, gone>>
hvars == <<_level, _exp, skill_level, hcall>>
kvars == <<skills, items, scall>>
pvars == <<prop, shifts, nshift, pcall, permanent>>
others == <<kvars, pvars, ncall>>
vars == <<_effects, delays, player, nextId, call, gone, _level, _exp, skill_level, hcall,
          skills, items, scall, prop, shifts, nshift, pcall, permanent, ncall>>

NoCall ==
    [op |-> "none", kind |-> "none", player |-> 0, handle |-> 0,
     emptyBefore |-> TRUE, inSetBefore |-> FALSE,
     activations |-> 0, reverts |-> 0, stale |-> FALSE, raised |-> FALSE]

\* ----------------------------------------------------------- defaultdict(set)
\* m[p] of a defaultdict(set): the stored set, or a fresh empty set
Get(m, p) == IF p \in DOMAIN m THEN m[p] ELSE {}

\* the mapping after m[p] has been read and rebound to s (a read inserts the key)
Put(m, p, s) == [q \in (DOMAIN m) \cup {p} |-> IF q = p THEN s ELSE m[q]]

\* a discard that forgets to remove
discard_Nothing(s, h) == s

\* set.discard
discard(s, h) == s \ {h}

\* ----------------------------------------------------------- the _un* callbacks
\* a revert that does not look at the set
RevertsWhen_Always(s) == TRUE

\* a revert that never runs
RevertsWhen_Never(s) == FALSE

\* "if not _effects[kind][player.index]": the revert runs when the set is empty
RevertsWhen(s) == s = {}

\* the common body of _unburn / _unfreeze / _unnoclip / _unjetpack on the
\* mapping E of one kind and the engine state F of that kind for player p:
\* discard the handle, then revert when the set is empty
unEffect(E, F, p, h) ==
    LET s == discard(Get(E, p), h)
        r == RevertsWhen(s)
    IN  [E |-> Put(E, p, s),
         F |-> IF r THEN FALSE ELSE F,
         reverts |-> IF r THEN 1 ELSE 0]

_unburn(E, F, p, h) == unEffect(E, F, p, h)
_unfreeze(E, F, p, h) == unEffect(E, F, p, h)
_unnoclip(E, F, p, h) == unEffect(E, F, p, h)
_unjetpack(E, F, p, h) == unEffect(E, F, p, h)

Callback(k, E, F, p, h) ==
    CASE k = "burn" -> _unburn(E, F, p, h)
      [] k = "freeze" -> _unfreeze(E, F, p, h)
      [] k = "noclip" -> _unnoclip(E, F, p, h)
      [] k = "jetpack" -> _unjetpack(E, F, p, h)

\* ----------------------------------------------------------- apply
\* burn and freeze end with "delay()", noclip and jetpack do not
CallsDelay(k) == k \in {"burn", "freeze"}

\* a guarded activation: only when the set was empty before the call
Activates_WhenEmpty(s) == s = {}

\* the activation statement (call_input('Ignite') / player.<kind> = True) is
\* the first statement of each function and is not guarded
Activates(s) == TRUE

\* the body shared by burn / freeze / noclip / jetpack
Apply(k, p, d) ==
    /\ nextId <= MaxDelays
    /\ p \notin gone
    /\ LET h == nextId
           before == Get(_effects[k], p)
           act == Activates(before)
           F1 == IF act THEN TRUE ELSE player[p][k]
           E1 == Put(_effects[k], p, before \cup {h})
           res == IF CallsDelay(k)
                  THEN Callback(k, E1, F1, p, h)
                  ELSE [E |-> E1, F |-> F1, reverts |-> 0]
       IN  /\ _effects' = [_effects EXCEPT ![k] = res.E]
           /\ player' = [player EXCEPT ![p][k] = res.F]
           /\ delays' = Append(delays, [id |-> h, kind |-> k, player |-> p, left |-> d])
           /\ nextId' = nextId + 1
           /\ call' = [op |-> "apply", kind |-> k, player |-> p, handle |-> h,
                       emptyBefore |-> (before = {}), inSetBefore |-> FALSE,
                       activations |-> IF act THEN 1 ELSE 0,
                       reverts |-> res.reverts, stale |-> FALSE, raised |-> FALSE]
    /\ UNCHANGED <<gone, hvars, others>>

burn == \E p \in Players, d \in Durations : Apply("burn", p, d)
freeze == \E p \in Players, d \in Durations : Apply("freeze", p, d)
noclip == \E p \in Players, d \in Durations : Apply("noclip", p, d)
jetpack == \E p \in Players, d \in Durations : Apply("jetpack", p, d)

\* ----------------------------------------------------------- tick_delays
Due(i) == delays[i].left = 0

\* the handle the tick listener fires next: every due handle has the same
\* execution time (the clock does not move while one is due), and handles of
\* the same time fire in scheduling order
NextDue(i) ==
    /\ Due(i)
    /\ \A j \in 1..(i - 1) : ~Due(j)

Remove(q, i) == SubSeq(q, 1, i - 1) \o SubSeq(q, i + 1, Len(q))

\* what a callback run can come to: as computed, or, when its revert
\* statement uses the reference of a player that has left, either that engine
\* call goes through on the stale reference or it raises after the discard
Outcomes(run, F, stale) ==
    {[E |-> run.E, F |-> run.F, reverts |-> run.reverts, raised |-> FALSE]}
    \cup IF stale /\ run.reverts > 0
         THEN {[E |-> run.E, F |-> F, reverts |-> 0, raised |-> TRUE]}
         ELSE {}

\* the tick listener fires one due handle (the callback on its args), then the handle
\* leaves the queue
Fire ==
    \E i \in 1..Len(delays) :
        /\ NextDue(i)
        /\ LET t == delays[i]
               run == Callback(t.kind, _effects[t.kind], player[t.player][t.kind],
                               t.player, t.id)
           IN  \E res \in Outcomes(run, player[t.player][t.kind], t.player \in gone) :
               /\ _effects' = [_effects EXCEPT ![t.kind] = res.E]
               /\ player' = [player EXCEPT ![t.player][t.kind] = res.F]
               /\ call' = [op |-> "fire", kind |-> t.kind, player |-> t.player,
                           handle |-> t.id,
                           emptyBefore |-> (Get(_effects[t.kind], t.player) = {}),
                           inSetBefore |-> (t.id \in Get(_effects[t.kind], t.player)),
                           activations |-> 0, reverts |-> res.reverts,
                           stale |-> (t.player \in gone), raised |-> res.raised]
        /\ delays' = Remove(delays, i)
        /\ UNCHANGED <<nextId, gone, hvars, others>>

\* a player leaves the server: nothing of commandlib runs, the scheduled
\* handles and the sets keep the references to the player
Disconnect ==
    /\ \E p \in Players \ gone : gone' = gone \cup {p}
    /\ call' = NoCall
    /\ UNCHANGED <<_effects, delays, player, nextId, hvars, others>>

\* the clock moves on by one tick once every due handle has fired
Tick ==
    /\ delays # <<>>
    /\ \A i \in 1..Len(delays) : ~Due(i)
    /\ delays' = [i \in 1..Len(delays) |-> [delays[i] EXCEPT !.left = @ - 1]]
    /\ call' = NoCall
    /\ UNCHANGED <<_effects, player, nextId, gone, hvars, others>>

\* ----------------------------------------------------------- Entity / Hero
\* configs.exp_algorithm
exp_algorithm(level) == 100 + level * 20

\* Hero.required_exp at a given level
required_exp(level) == IF level >= HeroMaxLevel THEN 0 ELSE exp_algorithm(level)

\* an upper check that lets max_level + 1 through
LevelRejected_OffByOne(level, max) == level < 0 \/ level > max + 1

\* the two raising branches of Entity.level's setter
LevelRejected(level, max) == level < 0 \/ level > max

\* Entity.level = new on an entity at level cur
EntitySetLevel(cur, new, max) ==
    IF LevelRejected(new, max)
    THEN [level |-> cur, raised |-> TRUE]
    ELSE [level |-> new, raised |-> FALSE]

\* a level setter that keeps the experience points
ExpOnLevelSet_Keep(exp) == exp

\* "self._exp = 0", the first statement of Hero.level's setter
ExpOnLevelSet(exp) == 0

\* a level setter that reports the levels it added as a level-up
HeroSetLevel_Fires(level, exp, new) ==
    LET r == EntitySetLevel(level, new, HeroMaxLevel)
    IN  [level |-> r.level, exp |-> ExpOnLevelSet(exp), raised |-> r.raised,
         fired |-> IF r.level > level THEN <<r.level - level>> ELSE <<>>]

\* Hero.level = new: _exp is zeroed, then Entity's setter runs; e_level_up is
\* not touched
HeroSetLevel(level, exp, new) ==
    LET r == EntitySetLevel(level, new, HeroMaxLevel)
    IN  [level |-> r.level, exp |-> ExpOnLevelSet(exp), raised |-> r.raised,
         fired |-> <<>>]

\* a loop that stops one level early when exp equals the requirement
LoopCond_Strict(level, exp) == exp > required_exp(level) /\ level < HeroMaxLevel

\* the condition of the while loop in Hero.exp's setter
LoopCond(level, exp) == exp >= required_exp(level) /\ level < HeroMaxLevel

\* the while loop: pay required_exp, gain one level
RECURSIVE LevelLoop(_, _)
LevelLoop(level, exp) ==
    IF LoopCond(level, exp)
    THEN LevelLoop(level + 1, exp - required_exp(level))
    ELSE [level |-> level, exp |-> exp]

\* the clamp after the loop
Clamp(r) ==
    IF r.level >= HeroMaxLevel THEN [level |-> HeroMaxLevel, exp |-> 0] ELSE r

\* a level-up event fired once per level gained
FireLevelUp_PerLevel(old, new) == [i \in 1..(new - old) |-> 1]

\* the arguments of the e_level_up.fire calls of one setter call
FireLevelUp(old, new) == IF new > old THEN <<new - old>> ELSE <<>>

\* an exp setter that looks at the level cap before the sign of the value
HeroSetExp_CapFirst(level, exp, new) ==
    IF level >= HeroMaxLevel
    THEN [level |-> level, exp |-> 0, raised |-> FALSE, fired |-> <<>>]
    ELSE IF new < 0
    THEN [level |-> level, exp |-> exp, raised |-> TRUE, fired |-> <<>>]
    ELSE IF new # exp
    THEN LET r == Clamp(LevelLoop(level, new))
         IN  [level |-> r.level, exp |-> r.exp, raised |-> FALSE,
              fired |-> FireLevelUp(level, r.level)]
    ELSE [level |-> level, exp |-> exp, raised |-> FALSE, fired |-> <<>>]

\* an exp setter that stores the value of a hero at the level cap
HeroSetExp_CapKeeps(level, exp, new) ==
    IF new < 0
    THEN [level |-> level, exp |-> exp, raised |-> TRUE, fired |-> <<>>]
    ELSE IF level >= HeroMaxLevel
    THEN [level |-> level, exp |-> new, raised |-> FALSE, fired |-> <<>>]
    ELSE IF new # exp
    THEN LET r == Clamp(LevelLoop(level, new))
         IN  [level |-> r.level, exp |-> r.exp, raised |-> FALSE,
              fired |-> FireLevelUp(level, r.level)]
    ELSE [level |-> level, exp |-> exp, raised |-> FALSE, fired |-> <<>>]

\* an exp setter that adds the value to the experience the hero already has
HeroSetExp_Accumulates(level, exp, new) ==
    IF new < 0
    THEN [level |-> level, exp |-> exp, raised |-> TRUE, fired |-> <<>>]
    ELSE IF level >= HeroMaxLevel
    THEN [level |-> level, exp |-> 0, raised |-> FALSE, fired |-> <<>>]
    ELSE IF new # exp
    THEN LET r == Clamp(LevelLoop(level, exp + new))
         IN  [level |-> r.level, exp |-> r.exp, raised |-> FALSE,
              fired |-> FireLevelUp(level, r.level)]
    ELSE [level |-> level, exp |-> exp, raised |-> FALSE, fired |-> <<>>]

\* Hero.exp = new on a hero at (level, exp)
HeroSetExp(level, exp, new) ==
    IF new < 0
    THEN [level |-> level, exp |-> exp, raised |-> TRUE, fired |-> <<>>]
    ELSE IF level >= HeroMaxLevel
    THEN [level |-> level, exp |-> 0, raised |-> FALSE, fired |-> <<>>]
    ELSE IF new # exp
    THEN LET r == Clamp(LevelLoop(level, new))
         IN  [level |-> r.level, exp |-> r.exp, raised |-> FALSE,
              fired |-> FireLevelUp(level, r.level)]
    ELSE [level |-> level, exp |-> exp, raised |-> FALSE, fired |-> <<>>]

\* the experience needed to go from level a to level b
RECURSIVE SumReq(_, _)
SumReq(a, b) == IF a >= b THEN 0 ELSE exp_algorithm(a) + SumReq(a + 1, b)

\* the values assigned to exp: a negative one, and the values at and next to
\* every threshold between two levels
ExpInputs ==
    {-1} \cup {SumReq(a, b) + d : a \in 0..HeroMaxLevel, b \in 0..HeroMaxLevel, d \in {-1, 0, 1}}

NoHCall ==
    [op |-> "none", arg |-> 0, oldLevel |-> 0, oldExp |-> 0,
     raised |-> FALSE, fired |-> <<>>]

Hero_exp_set ==
    /\ \E x \in ExpInputs :
         LET r == HeroSetExp(_level, _exp, x)
         IN  /\ _level' = r.level
             /\ _exp' = r.exp
             /\ hcall' = [op |-> "exp", arg |-> x, oldLevel |-> _level,
                          oldExp |-> _exp, raised |-> r.raised, fired |-> r.fired]
    /\ UNCHANGED <<skill_level, evars, others>>

Hero_level_set ==
    /\ \E l \in -1..(HeroMaxLevel + 1) :
         LET r == HeroSetLevel(_level, _exp, l)
         IN  /\ _level' = r.level
             /\ _exp' = r.exp
             /\ hcall' = [op |-> "hero_level", arg |-> l, oldLevel |-> _level,
                          oldExp |-> _exp, raised |-> r.raised, fired |-> r.fired]
    /\ UNCHANGED <<skill_level, evars, others>>

Entity_level_set ==
    /\ \E l \in -1..(SkillMaxLevel + 1) :
         LET r == EntitySetLevel(skill_level, l, SkillMaxLevel)
         IN  /\ skill_level' = r.level
             /\ hcall' = [op |-> "entity_level", arg |-> l, oldLevel |-> skill_level,
                          oldExp |-> 0, raised |-> r.raised, fired |-> <<>>]
    /\ UNCHANGED <<_level, _exp, evars, others>>

\* ----------------------------------------------------------- skills of a hero
\* TestHero1: the classes added by @TestHero1.passive and @TestHero1.skill
passive_set == <<"HealthSpeed">>
skill_set == <<"Damage", "Ignite", "Noclip">>

\* the handler methods a class of heroes/test.py defines
Methods(cls) ==
    CASE cls = "HealthSpeed" -> {"on_spawn", "on_attack"}
      [] cls = "Damage" -> {"on_attack"}
      [] cls = "Ignite" -> {"on_spawn"}
      [] cls = "Noclip" -> {"on_ultimate"}

\* the names execute_skills is called with; no class defines on_death
MethodNames == {"on_spawn", "on_attack", "on_ultimate", "on_death"}

\* the method sets of the item classes put on a hero
ItemMethods == {{}, {"on_spawn"}, {"on_spawn", "on_attack"}}

\* cost of a skill class (Skill.cost, Noclip.cost)
cost(cls) == IF cls = "Noclip" THEN 2 ELSE 1

\* max_level of a skill class
max_level(cls) ==
    CASE cls = "Damage" -> 1
      [] cls = "Ignite" -> 2
      [] cls = "Noclip" -> 3
      [] OTHER -> SkillMaxLevel

\* Skill.execute_method: the method runs when the class defines it
execute_method(methods, method_name) == method_name \in methods

Indexes(n) == [i \in 1..n |-> i]

\* a dispatch that runs the items before the passives and the skills
execute_skills_ItemsFirst(lv, its, method_name) ==
    LET ps == SelectSeq(Indexes(Len(passive_set)),
                        LAMBDA i : execute_method(Methods(passive_set[i]), method_name))
        ss == SelectSeq(Indexes(Len(skill_set)),
                        LAMBDA i : lv[i] # 0 /\ execute_method(Methods(skill_set[i]), method_name))
        is == SelectSeq(Indexes(Len(its)),
                        LAMBDA i : execute_method(its[i], method_name))
    IN  [i \in 1..Len(is) |-> [group |-> "item", index |-> is[i]]]
        \o [i \in 1..Len(ps) |-> [group |-> "passive", index |-> ps[i]]]
        \o [i \in 1..Len(ss) |-> [group |-> "skill", index |-> ss[i]]]

\* Hero.execute_skills: the handlers run, in order, by the three loops
execute_skills(lv, its, method_name) ==
    LET ps == SelectSeq(Indexes(Len(passive_set)),
                        LAMBDA i : execute_method(Methods(passive_set[i]), method_name))
        ss == SelectSeq(Indexes(Len(skill_set)),
                        LAMBDA i : lv[i] # 0 /\ execute_method(Methods(skill_set[i]), method_name))
        is == SelectSeq(Indexes(Len(its)),
                        LAMBDA i : execute_method(its[i], method_name))
    IN  [i \in 1..Len(ps) |-> [group |-> "passive", index |-> ps[i]]]
        \o [i \in 1..Len(ss) |-> [group |-> "skill", index |-> ss[i]]]
        \o [i \in 1..Len(is) |-> [group |-> "item", index |-> is[i]]]

\* a sum of the skill levels that forgets the cost
RECURSIVE used_points_NoCost(_, _)
used_points_NoCost(lv, n) ==
    IF n = 0 THEN 0 ELSE lv[n] + used_points_NoCost(lv, n - 1)

\* sum(skill.level * skill.cost for skill in self.skills), over the first n skills
RECURSIVE used_points(_, _)
used_points(lv, n) ==
    IF n = 0 THEN 0 ELSE lv[n] * cost(skill_set[n]) + used_points(lv, n - 1)

\* Hero.skill_points
skill_points(level, lv) == level - used_points(lv, Len(lv))

NoSCall == [op |-> "none"]

\* hero.execute_skills(method_name)
Hero_execute_skills ==
    /\ \E m \in MethodNames :
         scall' = [op |-> "execute", name |-> m, log |-> execute_skills(skills, items, m)]
    /\ UNCHANGED <<skills, items, evars, hvars, pvars, ncall>>

\* hero.skills[i].level = l
Skill_level_set ==
    /\ \E i \in 1..Len(skill_set) : \E l \in -1..(max_level(skill_set[i]) + 1) :
         LET r == EntitySetLevel(skills[i], l, max_level(skill_set[i]))
         IN  /\ skills' = [skills EXCEPT ![i] = r.level]
             /\ scall' = [op |-> "skill_level", index |-> i, arg |-> l,
                          raised |-> r.raised, oldSkills |-> skills,
                          oldLevel |-> _level, oldExp |-> _exp,
                          oldPoints |-> skill_points(_level, skills)]
    /\ UNCHANGED <<items, evars, hvars, pvars, ncall>>

\* hero.items.append(item)
Hero_items_append ==
    /\ Len(items) < MaxItems
    /\ \E it \in ItemMethods : items' = Append(items, it)
    /\ scall' = [op |-> "append"]
    /\ UNCHANGED <<skills, evars, hvars, pvars, ncall>>

\* ----------------------------------------------------------- shiftprop
\* the shifts skills ask for
ShiftValues == {-1, 2}

\* "if duration:" - a handle is scheduled for a duration other than 0
Schedules(duration) == duration # 0

\* the scheduled call shiftprop(player, prop, -shift): duration is left at 0,
\* so the run adds its shift and schedules nothing
shiftprop_revert(v, t) == v + t.shift

\* shiftprop(player, prop, shift, duration) on the value v: the shift is
\* added; for a duration other than 0 a handle for shiftprop(player, prop,
\* -shift) is scheduled and, by the "()" that follows, called at once
shiftprop_run(v, shift, duration) ==
    LET v1 == v + shift
        t == [shift |-> -shift, left |-> duration]
    IN  IF Schedules(duration)
        THEN [value |-> shiftprop_revert(v1, t), scheduled |-> <<t>>]
        ELSE [value |-> v1, scheduled |-> <<>>]

NoPCall == [op |-> "none", shift |-> 0, duration |-> 0, before |-> 0, scheduled |-> 0]

shiftprop ==
    /\ nshift < MaxShifts
    /\ \E sh \in ShiftValues, d \in Durations :
         LET r == shiftprop_run(prop, sh, d)
         IN  /\ prop' = r.value
             /\ shifts' = shifts \o r.scheduled
             /\ pcall' = [op |-> "shiftprop", shift |-> sh, duration |-> d,
                          before |-> prop, scheduled |-> Len(r.scheduled)]
             /\ permanent' = IF Schedules(d) THEN permanent ELSE permanent + sh
    /\ nshift' = nshift + 1
    /\ UNCHANGED <<evars, hvars, kvars, ncall>>

\* the tick listener fires the first due handle of shiftprop
ShiftFire ==
    /\ \E i \in 1..Len(shifts) :
         /\ shifts[i].left = 0
         /\ \A j \in 1..(i - 1) : shifts[j].left # 0
         /\ prop' = shiftprop_revert(prop, shifts[i])
         /\ shifts' = Remove(shifts, i)
         /\ pcall' = [op |-> "fire", shift |-> shifts[i].shift, duration |-> 0,
                      before |-> prop, scheduled |-> 0]
    /\ UNCHANGED <<nshift, permanent, evars, hvars, kvars, ncall>>

\* the clock moves on by one tick once every due handle has fired
ShiftTick ==
    /\ shifts # <<>>
    /\ \A i \in 1..Len(shifts) : shifts[i].left # 0
    /\ shifts' = [i \in 1..Len(shifts) |-> [shifts[i] EXCEPT !.left = @ - 1]]
    /\ pcall' = NoPCall
    /\ UNCHANGED <<prop, nshift, permanent, evars, hvars, kvars, ncall>>

\* ----------------------------------------------------------- get_nearby_players
\* the distances of the candidates to the point, and the radii asked for
Distances == {10, 50, 150}
Radii == {0, 50, 100}

\* the candidate pools: what PlayerIter yields, as the distance of each
\* candidate in iteration order
Pools == UNION {[1..n -> Distances] : n \in 0..MaxCandidates}

\* a radius test that leaves out the players at exactly the radius
InRadius_Strict(dist, radius) == dist < radius

\* "vector.get_distance(player.location) <= radius"
InRadius(dist, radius) == dist <= radius

\* the set built by the for loop: the candidates within the radius
NearSet(pool, radius) == {i \in 1..Len(pool) : InRadius(pool[i], radius)}

\* the orders in which a Python set can hand out its elements
IterationOrders(S) ==
    {f \in [1..Cardinality(S) -> S] : \A i, j \in 1..Cardinality(S) : i # j => f[i] # f[j]}

\* one step of the stable sort: x goes behind every element whose key is not above its own
Insert(sq, x, pool) ==
    LET k == Cardinality({i \in 1..Len(sq) : pool[sq[i]] <= pool[x]})
    IN  SubSeq(sq, 1, k) \o <<x>> \o SubSeq(sq, k + 1, Len(sq))

\* sorted(players, key=distance): stable on the order it is given
RECURSIVE sorted(_, _)
sorted(sq, pool) ==
    IF sq = <<>> THEN <<>>
    ELSE Insert(sorted(SubSeq(sq, 1, Len(sq) - 1), pool), sq[Len(sq)], pool)

\* the lists get_nearby_players can return for a pool and a radius
get_nearby_players(pool, radius) ==
    {sorted(o, pool) : o \in IterationOrders(NearSet(pool, radius))}

NoNCall == [op |-> "none", pool |-> <<>>, radius |-> 0, result |-> <<>>]

Nearby ==
    /\ \E pool \in Pools, radius \in Radii :
         \E res \in get_nearby_players(pool, radius) :
            ncall' = [op |-> "nearby", pool |-> pool, radius |-> radius, result |-> res]
    /\ UNCHANGED <<evars, hvars, kvars, pvars>>

\* ----------------------------------------------------------- specification
\* the module as loaded, Hero() and Skill(): no effect, level 0, exp 0
Init ==
    /\ _effects = [k \in Kinds |-> <<>>]
    /\ delays = <<>>
    /\ player = [p \in Players |-> [k \in Kinds |-> FALSE]]
    /\ nextId = 1
    /\ call = NoCall
    /\ gone = {}
    /\ _level = 0
    /\ _exp = 0
    /\ skill_level = 0
    /\ hcall = NoHCall
    /\ skills = [i \in 1..Len(skill_set) |-> 0]
    /\ items = <<>>
    /\ scall = NoSCall
    /\ prop = 0
    /\ shifts = <<>>
    /\ nshift = 0
    /\ pcall = NoPCall
    /\ permanent = 0
    /\ ncall = NoNCall

\* the module as loaded, Hero(level, exp) as it is restored from the values
\* of an earlier hero, and Skill()
HeroInit ==
    /\ _effects = [k \in Kinds |-> <<>>]
    /\ delays = <<>>
    /\ player = [p \in Players |-> [k \in Kinds |-> FALSE]]
    /\ nextId = 1
    /\ call = NoCall
    /\ gone = {}
    /\ _level \in 0..HeroMaxLevel
    /\ _exp \in IF _level = HeroMaxLevel THEN {0} ELSE 0..(required_exp(_level) - 1)
    /\ skill_level = 0
    /\ hcall = NoHCall
    /\ skills = [i \in 1..Len(skill_set) |-> 0]
    /\ items = <<>>
    /\ scall = NoSCall
    /\ prop = 0
    /\ shifts = <<>>
    /\ nshift = 0
    /\ pcall = NoPCall
    /\ permanent = 0
    /\ ncall = NoNCall

EffectNext == burn \/ freeze \/ noclip \/ jetpack \/ Fire \/ Tick

\* the module as loaded and a TestHero1(level): its skills at level 0, no item
SkillInit ==
    /\ _effects = [k \in Kinds |-> <<>>]
    /\ delays = <<>>
    /\ player = [p \in Players |-> [k \in Kinds |-> FALSE]]
    /\ nextId = 1
    /\ call = NoCall
    /\ gone = {}
    /\ _level \in 0..HeroMaxLevel
    /\ _exp = 0
    /\ skill_level = 0
    /\ hcall = NoHCall
    /\ skills = [i \in 1..Len(skill_set) |-> 0]
    /\ items = <<>>
    /\ scall = NoSCall
    /\ prop = 0
    /\ shifts = <<>>
    /\ nshift = 0
    /\ pcall = NoPCall
    /\ permanent = 0
    /\ ncall = NoNCall

SkillNext == Hero_execute_skills \/ Skill_level_set \/ Hero_items_append

HeroNext == Hero_exp_set \/ Hero_level_set \/ Entity_level_set

ShiftNext == shiftprop \/ ShiftFire \/ ShiftTick

Next == EffectNext \/ Disconnect \/ HeroNext \/ SkillNext \/ ShiftNext \/ Nearby

Spec == Init /\ [][Next]_vars

SpecEffect == Init /\ [][EffectNext]_vars

\* the tick listener runs on every tick: a due handle is fired, and the clock
\* moves on when none is due
SpecEffectFair == Init /\ [][EffectNext]_vars /\ WF_vars(Fire) /\ WF_vars(Tick)

RemovalNext == burn \/ freeze \/ noclip \/ jetpack \/ Fire \/ Tick \/ Disconnect

SpecRemoval == Init /\ [][RemovalNext]_vars

SpecHero == HeroInit /\ [][HeroNext]_vars

SpecSkill == SkillInit /\ [][SkillNext]_vars

SpecShift == Init /\ [][ShiftNext]_vars

SpecNear == Init /\ [][Nearby]_vars

\* ----------------------------------------------------------- properties
\* the handles of kind k still scheduled for player p
Pending(k, p) == {delays[i].id : i \in {j \in 1..Len(delays) :
                                           delays[j].kind = k /\ delays[j].player = p}}

\* C1: a revert is performed only by the firing of the last scheduled timer of
\* that kind for that player, never while another timer of the kind is pending
C1_RevertOnlyAtLastTimer ==
    call.reverts > 0 => (call.op = "fire" /\ Pending(call.kind, call.player) = {})

\* C4: an apply performs the activation only when the player's set for the
\* kind was empty before the call
C4_ActivationOnlyWhenEmpty ==
    (call.op = "apply" /\ call.activations > 0) => call.emptyBefore

\* C4 (amended): every apply performs the activation exactly once, whether or
\* not the set was empty before; after noclip / jetpack the flag is True
C4_ActivationOnEveryApply ==
    call.op = "apply" =>
        /\ call.activations = 1
        /\ (~CallsDelay(call.kind) => player[call.player][call.kind])

C4_Witness ==
    /\ call.op = "apply"
    /\ ~call.emptyBefore
    /\ call.activations = 1

\* C5: the callback of a handle that is no longer in the player's set
\* performs no revert
C5_SecondRunDoesNotRevert ==
    (call.op = "fire" /\ ~call.inSetBefore) => call.reverts = 0

\* C6: the engine state of a kind is true for a player iff the player's set
\* of that kind is non-empty
C6_FlagIffSetNonEmpty ==
    \A k \in Kinds, p \in Players : player[p][k] <=> (Get(_effects[k], p) # {})

C6_Witness ==
    /\ call.op = "fire"
    /\ call.reverts = 0
    /\ player[call.player][call.kind]
    /\ Get(_effects[call.kind], call.player) # {}

\* C7: a player is a key of _effects[kind] only while it has at least one
\* active timer of that kind
C7_KeyOnlyWhileActive ==
    \A k \in Kinds : \A p \in DOMAIN _effects[k] : _effects[k][p] # {}

\* C7 (amended): a player's set in _effects[kind] holds only handles of that
\* player's still scheduled timers of the kind, so it is empty once the last
\* of them has fired; the key itself is never removed from the mapping
C7_SetOnlyPendingKeyStays ==
    /\ [](\A k \in Kinds : \A p \in DOMAIN _effects[k] : _effects[k][p] \subseteq Pending(k, p))
    /\ [][\A k \in Kinds : DOMAIN _effects[k] \subseteq DOMAIN _effects'[k]]_vars

C7_Witness ==
    /\ call.op = "fire"
    /\ call.inSetBefore
    /\ call.player \in DOMAIN _effects[call.kind]
    /\ _effects[call.kind][call.player] = {}
    /\ Pending(call.kind, call.player) = {}

C3_LevelUpFiredOnceWithGain ==
    hcall.op = "exp" =>
        /\ Len(hcall.fired) <= 1
        /\ (_level > hcall.oldLevel => hcall.fired = <<_level - hcall.oldLevel>>)
        /\ (_level <= hcall.oldLevel => hcall.fired = <<>>)

C3_Witness ==
    /\ hcall.op = "exp"
    /\ _level >= hcall.oldLevel + 2
    /\ hcall.fired = <<_level - hcall.oldLevel>>

\* C8: a Hero level setter that raises leaves level and exp as they were
C8_LevelErrorLeavesHero ==
    (hcall.op = "hero_level" /\ hcall.raised) =>
        (_level = hcall.oldLevel /\ _exp = hcall.oldExp)

C11_NegativeExpRaises ==
    (hcall.op = "exp" /\ hcall.arg < 0) =>
        /\ hcall.raised
        /\ _level = hcall.oldLevel
        /\ _exp = hcall.oldExp
        /\ hcall.fired = <<>>

C11_Witness ==
    /\ hcall.op = "exp"
    /\ hcall.arg < 0
    /\ hcall.raised
    /\ hcall.oldLevel = HeroMaxLevel

\* C12: on a hero at max_level the exp setter called with a value >= 0 sets
\* exp to 0, leaves the level and fires no level-up event
C12_ExpPinnedAtCap ==
    (hcall.op = "exp" /\ hcall.arg >= 0 /\ hcall.oldLevel = HeroMaxLevel) =>
        /\ ~hcall.raised
        /\ _exp = 0
        /\ _level = hcall.oldLevel
        /\ hcall.fired = <<>>

C12_Witness ==
    /\ hcall.op = "exp"
    /\ hcall.arg > 0
    /\ hcall.oldLevel = HeroMaxLevel
    /\ _exp = 0

\* C13: the Hero level setter called with a level in 0..max_level sets exp to
\* 0 and the level to that value and fires no level-up event, also when the
\* level rises
C13_LevelSetterSilent ==
    (hcall.op = "hero_level" /\ 0 <= hcall.arg /\ hcall.arg <= HeroMaxLevel) =>
        /\ ~hcall.raised
        /\ _exp = 0
        /\ _level = hcall.arg
        /\ hcall.fired = <<>>

C13_Witness ==
    /\ hcall.op = "hero_level"
    /\ hcall.arg > hcall.oldLevel
    /\ hcall.oldExp > 0
    /\ _level = hcall.arg
    /\ _exp = 0

\* the place of a handler in the order passives, skills, items
Rank(e) ==
    (CASE e.group = "passive" -> 0 [] e.group = "skill" -> 1 [] e.group = "item" -> 2) * (MaxItems + 10)
    + e.index

\* C14: execute_skills runs exactly the handlers of the passives, of the
\* skills whose level is above 0 and of the items that define the method,
\* passives before skills before items, each group in insertion order
C14_DispatchOrder ==
    scall.op = "execute" =>
        /\ \A i, j \in 1..Len(scall.log) : i < j => Rank(scall.log[i]) < Rank(scall.log[j])
        /\ {scall.log[i] : i \in 1..Len(scall.log)} =
              {[group |-> "passive", index |-> i] : i \in
                    {n \in 1..Len(passive_set) : scall.name \in Methods(passive_set[n])}}
              \cup {[group |-> "skill", index |-> i] : i \in
                    {n \in 1..Len(skill_set) : skills[n] > 0 /\ scall.name \in Methods(skill_set[n])}}
              \cup {[group |-> "item", index |-> i] : i \in
                    {n \in 1..Len(items) : scall.name \in items[n]}}

C14_Witness ==
    /\ scall.op = "execute"
    /\ scall.name = "on_attack"
    /\ skills[1] > 0
    /\ Len(items) = 2
    /\ scall.log = <<[group |-> "passive", index |-> 1], [group |-> "skill", index |-> 1],
                     [group |-> "item", index |-> 2]>>

\* C15: skill_points is the level minus the sum of level * cost over the
\* skills; raising one skill's level by 1 lowers skill_points by that skill's
\* cost and changes neither the hero's level, exp nor another skill's level
C15_SkillPoints ==
    /\ skill_points(_level, skills) =
          _level - (skills[1] * 1 + skills[2] * 1 + skills[3] * 2)
    /\ (scall.op = "skill_level" /\ ~scall.raised
            /\ scall.arg = scall.oldSkills[scall.index] + 1) =>
          /\ skill_points(_level, skills) = scall.oldPoints - cost(skill_set[scall.index])
          /\ _level = scall.oldLevel
          /\ _exp = scall.oldExp
          /\ \A j \in 1..Len(skills) : j # scall.index => skills[j] = scall.oldSkills[j]

C15_Witness ==
    /\ scall.op = "skill_level"
    /\ ~scall.raised
    /\ scall.index = 3
    /\ scall.arg = scall.oldSkills[3] + 1
    /\ skill_points(_level, skills) = scall.oldPoints - 2
    /\ skills[2] > 0

\* C16: the expiry of a timer whose player has left performs no engine action
\* on that player, raises no error and leaves the handle in no set
C16_StaleExpiryIsNoOp ==
    (call.op = "fire" /\ call.stale) =>
        /\ call.reverts = 0
        /\ ~call.raised
        /\ call.handle \notin Get(_effects[call.kind], call.player)

\* C17: shiftprop adds the shift at once and schedules one timer when the
\* duration is above 0 and none when it is 0; the firing of the timer
\* subtracts the shift once and schedules nothing
C17_ShiftThenOneRevert ==
    /\ pcall.op = "shiftprop" =>
          /\ prop = pcall.before + pcall.shift
          /\ pcall.scheduled = (IF pcall.duration > 0 THEN 1 ELSE 0)
    /\ pcall.op = "fire" =>
          /\ prop = pcall.before + pcall.shift
          /\ pcall.scheduled = 0

\* C18: get_nearby_players returns the candidates within the radius, each
\* once, ascending by distance, equal distances in candidate iteration order
C18_NearbyStableInCandidateOrder ==
    ncall.op = "nearby" =>
        ncall.result = sorted(SelectSeq(Indexes(Len(ncall.pool)),
                                        LAMBDA i : ncall.pool[i] <= ncall.radius),
                              ncall.pool)

\* C18 (amended): get_nearby_players returns the candidates within the
\* radius, each once, ascending by distance; the order of candidates at equal
\* distance is not determined
C18_NearbySortedByDistance ==
    ncall.op = "nearby" =>
        /\ {ncall.result[i] : i \in 1..Len(ncall.result)} =
              {c \in 1..Len(ncall.pool) : ncall.pool[c] <= ncall.radius}
        /\ \A i, j \in 1..Len(ncall.result) :
              i < j => /\ ncall.result[i] # ncall.result[j]
                       /\ ncall.pool[ncall.result[i]] <= ncall.pool[ncall.result[j]]

C18_Witness ==
    /\ ncall.op = "nearby"
    /\ ncall.pool = <<50, 150, 10>>
    /\ ncall.radius = 100
    /\ ncall.result = <<3, 1>>

\* the sets of two different (kind, player) pairs, and the flags of another kind
SetsElsewhereKept(K, P) ==
    \A k \in Kinds, p \in Players :
        (k # K \/ p # P) => Get(_effects'[k], p) = Get(_effects[k], p)

\* C19: the expiry of a timer of kind K for player P removes exactly that
\* handle from P's set of K and changes no other set and no flag of another
\* kind; an apply of K to P adds exactly one new handle to P's set of K and
\* changes no other set
C19_FrameOfExpiryAndApply ==
    [][/\ (Len(delays') < Len(delays)) =>
            /\ Get(_effects'[call'.kind], call'.player) =
                  Get(_effects[call'.kind], call'.player) \ {call'.handle}
            /\ SetsElsewhereKept(call'.kind, call'.player)
            /\ \A k \in Kinds \ {call'.kind}, p \in Players : player'[p][k] = player[p][k]
       /\ (nextId' # nextId) =>
            /\ nextId \notin Get(_effects[call'.kind], call'.player)
            /\ Get(_effects'[call'.kind], call'.player) =
                  Get(_effects[call'.kind], call'.player) \cup {nextId}
            /\ SetsElsewhereKept(call'.kind, call'.player)]_vars

\* C20: when the tick listener keeps running, after the last of finitely many
\* applies every scheduled timer fires, and then, for each of the four kinds
\* and every player, the set is empty and the effect is reverted for good
C20_EventuallyReverted ==
    <>[](\A k \in Kinds, p \in Players :
            Get(_effects[k], p) = {} /\ ~player[p][k] /\ Pending(k, p) = {})

C20_Witness ==
    /\ call.op = "fire"
    /\ call.kind = "jetpack"
    /\ call.reverts = 1
    /\ call.inSetBefore
    /\ Get(_effects["jetpack"], call.player) = {}
    /\ ~player[call.player]["jetpack"]
    /\ Pending("jetpack", call.player) = {}

\* C21: an exp setter call on a hero below max_level, with a value >= 0 other
\* than the current exp, never lowers the level; when the resulting level is
\* below max_level the value equals the requirements of the levels crossed
\* plus the resulting exp, which is below the next requirement; the exp the
\* hero had before does not enter
C21_ExpConservation ==
    (/\ hcall.op = "exp"
     /\ hcall.arg >= 0
     /\ hcall.oldLevel < HeroMaxLevel
     /\ hcall.arg # hcall.oldExp) =>
        /\ ~hcall.raised
        /\ _level >= hcall.oldLevel
        /\ _level < HeroMaxLevel =>
              /\ hcall.arg = SumReq(hcall.oldLevel, _level) + _exp
              /\ _exp >= 0
              /\ _exp < exp_algorithm(_level)

C21_Witness ==
    /\ hcall.op = "exp"
    /\ hcall.oldExp > 0
    /\ hcall.arg # hcall.oldExp
    /\ _level >= hcall.oldLevel + 2
    /\ _level < HeroMaxLevel
    /\ _exp > 0

\* C22: whatever the shiftprop calls and the order of their timers, once every
\* scheduled revert timer has fired the property is its original value, 0,
\* plus the sum of the shifts applied with duration 0
C22_OverlappingShiftsSettle ==
    shifts = <<>> => prop = 0 + permanent

====
